---- MODULE Spec2Model ----
(***************************************************************************)
(* BB84 quantum key distribution simulator: a model of the protocol core   *)
(* (bb84_simulator.py: simulate_transmission, assess_security,             *)
(* privacy_amplification) and of the orchestration in bb84_2.py            *)
(* (run_bb84_simulation and its compute_scenario).                         *)
(*                                                                         *)
(* Specifications:                                                         *)
(*   Spec        one browser session of the app: parameter sliders and the *)
(*               Run button (run_bb84_simulation)                          *)
(*   TxSpec      one call of simulate_transmission, batch by batch         *)
(*   PASpec      one call of privacy_amplification                         *)
(*   AssessSpec  one call of assess_security                               *)
(*   LockSpec    two invocations of run_bb84_simulation in one session,    *)
(*               step by step; LockFairSpec adds that a called function    *)
(*               goes on running                                           *)
(***************************************************************************)
EXTENDS Integers, Sequences, FiniteSets, TLC

VARIABLES
    \* ---- simulate_transmission: arguments
    alice_bits, alice_bases, bob_bases,
    eve_present, eve_intercept_prob, noise_prob,
    \* ---- simulate_transmission: locals
    tx_pc, bob_results, eve_results, eve_bases, eve_intercepts,
    batch_size, batch_start, circuits,
    \* ---- simulate_transmission: log of the circuits handed to the simulator
    eve_jobs, bob_jobs,
    \* ---- simulate_transmission: returned tuple
    tx_ret,
    \* ---- simulate_transmission: the tuple the first call returned, once the
    \* caller calls again with the same arguments
    tx_first,
    \* ---- privacy_amplification: arguments, local secure_length, returned list
    pa_pc, pa_sifted_key, pa_error_rate, pa_level, pa_secure_length, pa_ret,
    \* ---- privacy_amplification: the arguments and the result of the first
    \* call, once the caller calls again
    pa_first,
    \* ---- assess_security: arguments, returned dict
    as_pc, as_qber, as_threshold, as_ret,
    \* ---- the app: st.session_state, the position of run_bb84_simulation,
    \* its locals, and the calls of privacy_amplification its scenarios made
    session_state, run_pc, run_locals, pa_calls,
    \* ---- the position of each of two invocations of run_bb84_simulation
    \* that run in one session at the same time
    lock_pc

txVars == <<alice_bits, alice_bases, bob_bases, eve_present, eve_intercept_prob,
            noise_prob, tx_pc, bob_results, eve_results, eve_bases,
            eve_intercepts, batch_size, batch_start, circuits, eve_jobs, bob_jobs,
            tx_ret, tx_first>>

paVars == <<pa_pc, pa_sifted_key, pa_error_rate, pa_level, pa_secure_length, pa_ret,
            pa_first>>

asVars == <<as_pc, as_qber, as_threshold, as_ret>>

appVars == <<session_state, run_pc, run_locals, pa_calls>>

lockVars == <<lock_pc>>

vars == <<txVars, paVars, asVars, appVars, lockVars>>

\* What a step of one function leaves alone.
notTx == <<paVars, asVars, appVars, lockVars>>

notPA == <<txVars, asVars, appVars, lockVars>>

notAS == <<txVars, paVars, appVars, lockVars>>

notApp == <<txVars, paVars, asVars, lockVars>>

notLock == <<txVars, paVars, asVars, run_pc, run_locals, pa_calls>>

(***************************************************************************)
(* Bounds of the model                                                     *)
(***************************************************************************)
\* Longest alice_bits / alice_bases / bob_bases passed to simulate_transmission.
MaxN == 2

\* The longest call tried with each batch size.
MaxBatchN == 3

\* The longest call that is made twice.
MaxReproN == 1

\* Longest sifted key passed to privacy_amplification on its own.
MaxKeyLen == 1100

(***************************************************************************)
(* Values                                                                  *)
(***************************************************************************)
Bit == {0, 1}

\* Python's None.
None == "None"

\* A session key or a result that can hold None is held as <<>> (None) or
\* as <<v>>.
Nothing == <<>>

Some(v) == <<v>>

\* Probabilities are held in percent: 50 is 0.5.
ProbValues == {0, 50, 100}

\* Representative values of np.random.random(), a float of [0, 1), in percent.
UnitDraws == {0, 25, 50, 75, 99}

\* config.BATCH_SIZE (bb84_config is not among the sources).
BATCH_SIZE == 2

Min(a, b) == IF a <= b THEN a ELSE b
Max(a, b) == IF a >= b THEN a ELSE b

\* All sequences over S of length n.
SeqOfLen(S, n) == [1..n -> S]

\* np.zeros(n)
Zeros(n) == [k \in 1..n |-> 0]

(***************************************************************************)
(* One qubit under the gates the simulator uses.  A circuit is held as the *)
(* state it has prepared so far: starting from |0>, X and H only ever      *)
(* reach |0>, |1>, |+>, |-> (up to a global phase).                        *)
(***************************************************************************)
QubitState == {"0", "1", "+", "-"}

\* QuantumCircuit(1, 1): a fresh qubit in |0>.
NewCircuit == "0"

\* qc.x(0): Pauli X.  X|+> = |+>, X|-> = -|->.
GateX(s) == CASE s = "0" -> "1" [] s = "1" -> "0" [] s = "+" -> "+" [] s = "-" -> "-"

\* qc.h(0): Hadamard.
GateH(s) == CASE s = "0" -> "+" [] s = "1" -> "-" [] s = "+" -> "0" [] s = "-" -> "1"

\* if cond: qc.x(0)
XIf(cond, s) == IF cond THEN GateX(s) ELSE s

\* if cond: qc.h(0)
HIf(cond, s) == IF cond THEN GateH(s) ELSE s

\* Born rule for qc.measure(0, 0), a measurement in the computational basis:
\* the weights of the outcomes 0 and 1, in halves (<<2, 0>> is outcome 0
\* with probability 1).
MeasureWeights(s) ==
    CASE s = "0" -> <<2, 0>> [] s = "1" -> <<0, 2>> [] s = "+" -> <<1, 1>> [] s = "-" -> <<1, 1>>

\* simulator.run(qc, shots=1).result().get_counts(): the weights of the keys
\* '0' and '1' of the one-shot counts of a circuit that ends in a measurement.
RunWeights(qc) == MeasureWeights(qc)

\* int(list(counts.keys())[0]): the outcomes a one-shot run can give.
RunOutcomes(qc) == {b \in Bit : RunWeights(qc)[b + 1] > 0}

\* encode_qubit(bit, basis)
encode_qubit(bit, basis) == HIf(basis = 1, XIf(bit = 1, NewCircuit))

(***************************************************************************)
(* simulate_transmission                                                   *)
(***************************************************************************)
\* The circuit Eve runs on an intercepted qubit (lines 121-136): Alice's
\* bit, then Eve's basis change, then the measurement.
EveMeasureCircuit(abit, ebasis) == HIf(ebasis = 1, XIf(abit = 1, NewCircuit))

\* Mutant of EveResendCircuit: Eve resends her result without her basis change.
EveResendCircuit_NoBasis(eres, ebasis) == XIf(eres = 1, NewCircuit)

\* The new circuit Eve prepares from her result (lines 151-155).
EveResendCircuit(eres, ebasis) == HIf(ebasis = 1, XIf(eres = 1, NewCircuit))

\* Mutant of AliceSendCircuit: Alice's basis change is left out.
AliceSendCircuit_NoBasis(abit, abasis) == XIf(abit = 1, NewCircuit)

\* The circuit of a qubit Eve does not intercept (lines 121-125, 163-164).
AliceSendCircuit(abit, abasis) == HIf(abasis = 1, XIf(abit = 1, NewCircuit))

\* Bob's basis change before his measurement (lines 167-169).
BobMeasureCircuit(sent, bbasis) == HIf(bbasis = 1, sent)

\* The weight, in eighths, with which Bob's result at an intercepted index
\* differs from abit when he measures in basis bbasis and there is no noise:
\* Eve's basis is 0 or 1 with equal weight (line 106), her one-shot
\* measurement (lines 133-140) gives e, she resends (e, her basis) (lines
\* 151-155) and Bob measures that (lines 167-169).
InterceptErrorEighths(abit, bbasis) ==
    LET w(ebasis, e) ==
           RunWeights(EveMeasureCircuit(abit, ebasis))[e + 1]
           * RunWeights(BobMeasureCircuit(EveResendCircuit(e, ebasis), bbasis))[(1 - abit) + 1]
    IN w(0, 0) + w(0, 1) + w(1, 0) + w(1, 1)

\* eve_present and eve_intercepts[i]
Intercepted(i) == eve_present /\ eve_intercepts[i]

\* np.random.random(n) < eve_intercept_prob, entry by entry.
InterceptDraws(p) == {r < p : r \in UnitDraws}

\* noise_prob > 0 and np.random.random() < noise_prob
NoiseFlips(p) == {p > 0 /\ r < p : r \in UnitDraws}

\* Mutant of NoiseFlip: the flip adds 1.
NoiseFlip_Add(result, flip) == IF flip THEN result + 1 ELSE result

\* Lines 183-184: bob_results[i] = 1 - bob_results[i] when the noise draw
\* falls under noise_prob.
NoiseFlip(result, flip) == IF flip THEN 1 - result ELSE result

\* range(batch_start, batch_end), as 1-based indices.
BatchIndices(start, n) == (start + 1)..Min(start + batch_size, n)

\* Mutant of BatchPosition: every index reads the first result of its batch.
BatchPosition_First(i, start) == 1

\* Line 178, enumerate(batch_indices): the position in its batch of index i.
BatchPosition(i, start) == i - start

\* Line 186: return bob_results.tolist(), eve_results.tolist() if eve_present else None
TxReturnValue(bob, eve) == <<bob, eve>>

\* The locals of simulate_transmission on entry.  batch_size holds
\* config.BATCH_SIZE, which line 112 reads.
TxEntry ==
    /\ tx_pc = "setup"
    /\ bob_results = <<>>
    /\ eve_results = None
    /\ eve_bases = None
    /\ eve_intercepts = None
    /\ batch_start = 0
    /\ circuits = <<>>
    /\ eve_jobs = <<>>
    /\ bob_jobs = <<>>
    /\ tx_ret = None
    /\ tx_first = Nothing

\* The lengths of alice_bases and bob_bases tried next to n items of
\* alice_bits: both n, or bob_bases one longer, or one of them one shorter.
LengthPairs(n) ==
    {<<n, n>>, <<n, n + 1>>} \cup (IF n > 0 THEN {<<n, n - 1>>, <<n - 1, n>>} ELSE {})

\* The arrays are read at index i (lines 163 and 167) past their end:
\* alice_bases where Eve did not intercept, bob_bases everywhere.
PastEnd(i) ==
    \/ ~Intercepted(i) /\ i > Len(alice_bases)
    \/ i > Len(bob_bases)

\* Probabilities, in hundredths, outside [0,1]: the values tried for
\* noise_prob and the value tried for eve_intercept_prob.
OutOfRangeProbs == {-50, 150}

OutOfRangeEveProbs == {150}

\* The arguments of a call of at most maxn qubits.  Arrays of different
\* lengths are tried on calls without Eve and without noise; an out-of-range
\* noise_prob on calls without Eve, an out-of-range eve_intercept_prob on
\* calls without noise.
TxArguments(maxn) ==
    /\ eve_present \in BOOLEAN
    /\ eve_intercept_prob \in (IF eve_present THEN ProbValues \cup OutOfRangeEveProbs
                                               ELSE {50})
    /\ noise_prob \in (IF eve_present
                          THEN (IF eve_intercept_prob \in OutOfRangeEveProbs
                                   THEN {0} ELSE {0, 50})
                          ELSE {0, 50} \cup OutOfRangeProbs)
    /\ \E n \in 0..maxn :
          /\ alice_bits \in SeqOfLen(Bit, n)
          /\ \E lens \in (IF ~eve_present /\ noise_prob = 0
                             THEN LengthPairs(n) ELSE {<<n, n>>}) :
                /\ alice_bases \in SeqOfLen(Bit, lens[1])
                /\ bob_bases \in SeqOfLen(Bit, lens[2])

TxStart ==
    /\ TxArguments(MaxN)
    /\ batch_size = BATCH_SIZE
    /\ TxEntry

\* The calls that are made twice.
ReproStart ==
    /\ TxArguments(MaxReproN)
    /\ batch_size = BATCH_SIZE
    /\ TxEntry

\* The batch sizes config.BATCH_SIZE is tried with.
BatchSizes == {1, 2, 3}

\* The arguments of a call and the configured batch size, for the
\* properties of batching: Bob measures in Alice's bases, without noise, and
\* Eve, when present, intercepts every qubit.
BatchStart ==
    /\ eve_present \in BOOLEAN
    /\ eve_intercept_prob = 100
    /\ noise_prob = 0
    /\ \E n \in 0..MaxBatchN :
          /\ alice_bits \in SeqOfLen(Bit, n)
          /\ alice_bases \in SeqOfLen(Bit, n)
    /\ bob_bases = alice_bases
    /\ batch_size \in BatchSizes
    /\ TxEntry

\* Mutant of EveResultsStart: entries Eve has not measured are marked -1.
EveResultsStart_Marked(n) == [k \in 1..n |-> -1]

\* Line 99: eve_results = np.zeros(n, dtype=np.int8) when Eve is present.
EveResultsStart(n) == Zeros(n)

\* Lines 93-112: the result arrays and Eve's pre-drawn bases and intercept
\* decisions.
TxSetup ==
    /\ tx_pc = "setup"
    /\ LET n == Len(alice_bits) IN
          /\ bob_results' = Zeros(n)
          /\ eve_results' = IF eve_present THEN EveResultsStart(n) ELSE None
          /\ IF eve_present
                THEN /\ eve_bases' \in SeqOfLen(Bit, n)
                     /\ eve_intercepts' \in SeqOfLen(InterceptDraws(eve_intercept_prob), n)
                ELSE /\ eve_bases' = None
                     /\ eve_intercepts' = None
          /\ eve_jobs' = [k \in 1..n |-> None]
          /\ bob_jobs' = [k \in 1..n |-> None]
          /\ batch_start' = 0
          \* range(0, n, batch_size) is empty when n = 0: line 186 is next.
          /\ tx_pc' = IF n > 0 THEN "batch" ELSE "done"
          /\ tx_ret' = IF n > 0 THEN tx_ret ELSE TxReturnValue(bob_results', eve_results')
    /\ UNCHANGED <<alice_bits, alice_bases, bob_bases, eve_present,
                   eve_intercept_prob, noise_prob, circuits, batch_size, tx_first>>
    /\ UNCHANGED notTx

\* The circuit of index i that goes into the batch, given Eve's result for it.
BobCircuit(i, eres) ==
    BobMeasureCircuit(
        IF Intercepted(i)
            THEN EveResendCircuit(eres, eve_bases[i])
            ELSE AliceSendCircuit(alice_bits[i], alice_bases[i]),
        bob_bases[i])

\* Lines 114-186: one batch.  Its circuits are built index by index; Eve's
\* measurement of an intercepted qubit runs while the circuit is built, one
\* shot, and its result is recorded (m).  Then the batch is run, one shot
\* per circuit; result idx of the batch is Bob's result of index
\* batch_start + idx (r), then the noise flip (f).  After the last batch the
\* function returns.
TxBatch ==
    /\ tx_pc = "batch"
    /\ \A i \in BatchIndices(batch_start, Len(alice_bits)) : ~PastEnd(i)
    /\ LET n == Len(alice_bits)
           idx == BatchIndices(batch_start, n)
       IN \E m \in [idx -> Bit] :
             /\ \A i \in idx :
                   IF Intercepted(i)
                      THEN m[i] \in RunOutcomes(EveMeasureCircuit(alice_bits[i], eve_bases[i]))
                      ELSE m[i] = 0
             /\ eve_results' =
                   IF eve_present
                      THEN [k \in 1..n |-> IF k \in idx /\ Intercepted(k)
                                              THEN m[k] ELSE eve_results[k]]
                      ELSE eve_results
             /\ eve_jobs' =
                   [k \in 1..n |-> IF k \in idx /\ Intercepted(k)
                                      THEN EveMeasureCircuit(alice_bits[k], eve_bases[k])
                                      ELSE eve_jobs[k]]
             /\ LET batch == [j \in 1..Cardinality(idx) |->
                                 BobCircuit(batch_start + j, m[batch_start + j])]
                IN \E r \in [idx -> Bit] :
                      /\ \A i \in idx :
                            r[i] \in RunOutcomes(batch[BatchPosition(i, batch_start)])
                      /\ \E f \in [idx -> NoiseFlips(noise_prob)] :
                            /\ bob_results' =
                                  [k \in 1..n |-> IF k \in idx
                                                     THEN NoiseFlip(r[k], f[k])
                                                     ELSE bob_results[k]]
                            /\ tx_ret' = IF batch_start + batch_size < n
                                            THEN tx_ret
                                            ELSE TxReturnValue(bob_results', eve_results')
                      /\ circuits' = batch
                      /\ bob_jobs' = [k \in 1..n |-> IF k \in idx THEN batch[k - batch_start]
                                                                   ELSE bob_jobs[k]]
             /\ batch_start' = batch_start + batch_size
             /\ tx_pc' = IF batch_start + batch_size < n THEN "batch" ELSE "done"
    /\ UNCHANGED <<alice_bits, alice_bases, bob_bases, eve_present,
                   eve_intercept_prob, noise_prob, eve_bases, eve_intercepts,
                   batch_size, tx_first>>
    /\ UNCHANGED notTx

\* Lines 163 and 167 while the circuits of a batch are built: an array
\* shorter than alice_bits is read past its end and numpy raises
\* IndexError; the batches before this one have run.
TxIndexError ==
    /\ tx_pc = "batch"
    /\ \E i \in BatchIndices(batch_start, Len(alice_bits)) : PastEnd(i)
    /\ tx_pc' = "raised"
    /\ UNCHANGED <<alice_bits, alice_bases, bob_bases, eve_present,
                   eve_intercept_prob, noise_prob, bob_results, eve_results,
                   eve_bases, eve_intercepts, batch_size, batch_start, circuits,
                   eve_jobs, bob_jobs, tx_ret, tx_first>>
    /\ UNCHANGED notTx

\* The caller keeps the tuple the call returned and calls again with the
\* same arguments.  The function takes no generator and no seed (lines
\* 43-45): its draws come from numpy's global generator (lines 106, 109,
\* 183) and from the simulator's (lines 138, 176), which no argument sets.
TxAgain ==
    /\ tx_pc = "done"
    /\ tx_first = Nothing
    /\ tx_first' = Some(tx_ret)
    /\ tx_pc' = "setup"
    /\ bob_results' = <<>>
    /\ eve_results' = None
    /\ eve_bases' = None
    /\ eve_intercepts' = None
    /\ batch_start' = 0
    /\ circuits' = <<>>
    /\ eve_jobs' = <<>>
    /\ bob_jobs' = <<>>
    /\ tx_ret' = None
    /\ UNCHANGED <<alice_bits, alice_bases, bob_bases, eve_present,
                   eve_intercept_prob, noise_prob, batch_size>>
    /\ UNCHANGED notTx

\* No call of simulate_transmission is under way.
TxIdle ==
    /\ alice_bits = None /\ alice_bases = None /\ bob_bases = None
    /\ eve_present = None /\ eve_intercept_prob = None /\ noise_prob = None
    /\ tx_pc = "idle" /\ bob_results = None /\ eve_results = None
    /\ eve_bases = None /\ eve_intercepts = None /\ batch_size = None
    /\ batch_start = None
    /\ circuits = None /\ eve_jobs = None /\ bob_jobs = None /\ tx_ret = None
    /\ tx_first = None

(***************************************************************************)
(* Numbers.  A rate (error_rate, qber, threshold) is a fraction            *)
(* <<num, den>> with den > 0; entropies and logarithms are fixed-point     *)
(* numbers in units of 1/Micro.                                            *)
(***************************************************************************)
Micro == 1000000

RLeq(a, b) == a[1] * b[2] <= b[1] * a[2]

RLess(a, b) == a[1] * b[2] < b[1] * a[2]

REq(a, b) == a[1] * b[2] = b[1] * a[2]

\* np.clip(error_rate, 0.0, 1.0)
Clip01(r) == IF RLess(r, <<0, 1>>) THEN <<0, 1>>
             ELSE IF RLess(<<1, 1>>, r) THEN <<1, 1>> ELSE r

\* -e * np.log2(e) - (1 - e) * np.log2(1 - e) for 0 < e < 1, to six decimals,
\* for the rates the model draws (H(e) = H(1 - e)).
EntropyMicro(e) ==
    LET f == IF RLess(<<1, 2>>, e) THEN <<e[2] - e[1], e[2]>> ELSE e
    IN CASE REq(f, <<1, 2>>)    -> 1000000
         [] REq(f, <<2, 5>>)    -> 970951
         [] REq(f, <<1, 3>>)    -> 918296
         [] REq(f, <<1, 4>>)    -> 811278
         [] REq(f, <<1, 5>>)    -> 721928
         [] REq(f, <<11, 100>>) -> 499916
         [] REq(f, <<1, 10>>)   -> 468996
         [] REq(f, <<1, 20>>)   -> 286397

\* np.log2(1 / float(target_security_level)), fixed-point, for the security
\* levels the model draws: eps = 2^-128, 1e-6, 1.0, and 128.
Log2InvMicro(level) ==
    CASE level = "2^-128" -> 128000000
      [] level = "1e-6"   -> 19931569
      [] level = "1"      -> 0
      [] level = "128"    -> -7000000

\* config.TARGET_SECURITY_LEVEL (bb84_config is not among the sources):
\* eps = 2^-128.
TARGET_SECURITY_LEVEL == "2^-128"

\* int(x) of a fixed-point x: truncation toward zero.
IntTrunc(x) == IF x >= 0 THEN x \div Micro ELSE -((-x) \div Micro)

(***************************************************************************)
(* privacy_amplification                                                   *)
(***************************************************************************)
\* Width of the SHA-256 digest in bits (zfill(256)) and of the SHA-512 digest.
Sha256Bits == 256
Sha512Bits == 512

HexChars == <<"0", "1", "2", "3", "4", "5", "6", "7",
              "8", "9", "a", "b", "c", "d", "e", "f">>

\* The first k items of a sequence: s[:k] for k >= 0.
Take(s, k) == SubSeq(s, 1, Min(k, Len(s)))

\* ''.join(str(int(b)) for b in sifted_key)
KeyStr(sifted_key) == [i \in 1..Len(sifted_key) |-> IF sifted_key[i] = 1 THEN "1" ELSE "0"]

\* A stand-in for the digests of hashlib: a deterministic function of the
\* string with the width of the real digest (64 and 128 hex digits), whose
\* leading digits are zero for some strings.
DigestSeed(str) ==
    (7 * Len(str) + 13 * Cardinality({i \in 1..Len(str) : str[i] = "1"})) % 1000

\* Mutant of Sha256Hex: one hash object is kept and updated by every call,
\* so a second call digests what the first call fed followed by its own
\* string.
Sha256Hex_KeptHasher(str) ==
    LET fed == IF pa_first = Nothing THEN str ELSE str \o str
        seed == DigestSeed(fed)
    IN [j \in 1..(Sha256Bits \div 4) |-> HexChars[((seed * j + (j - 1) * (j - 1)) % 16) + 1]]

\* hashlib.sha256(key_str.encode()).hexdigest()
Sha256Hex(str) ==
    LET seed == DigestSeed(str)
    IN [j \in 1..(Sha256Bits \div 4) |-> HexChars[((seed * j + (j - 1) * (j - 1)) % 16) + 1]]

\* hashlib.sha512(key_str.encode()).hexdigest()
Sha512Hex(str) ==
    LET seed == DigestSeed(str)
    IN [j \in 1..(Sha512Bits \div 4) |-> HexChars[((seed * (j + 2) + 5 * (j - 1)) % 16) + 1]]

\* The value of a hex digit.
HexVal(c) == CHOOSE v \in 0..15 : HexChars[v + 1] = c

\* The first index >= i of a 1 in bits, or 0.
RECURSIVE FirstOne(_, _)
FirstOne(bits, i) ==
    IF i > Len(bits) THEN 0
    ELSE IF bits[i] = 1 THEN i ELSE FirstOne(bits, i + 1)

\* int(digest, 16): the integer, held as its binary numeral without leading
\* zeros (most significant bit first; <<>> is zero).
IntFromHex(hex) ==
    LET bits == [i \in 1..(4 * Len(hex)) |->
                    LET v == HexVal(hex[((i - 1) \div 4) + 1])
                        k == (i - 1) % 4
                    IN CASE k = 0 -> (v \div 8) % 2
                         [] k = 1 -> (v \div 4) % 2
                         [] k = 2 -> (v \div 2) % 2
                         [] k = 3 -> v % 2]
        first == FirstOne(bits, 1)
    IN IF first = 0 THEN <<>> ELSE SubSeq(bits, first, Len(bits))

\* bin(x)[2:]
Bin(x) == IF x = <<>> THEN <<"0">>
          ELSE [i \in 1..Len(x) |-> IF x[i] = 1 THEN "1" ELSE "0"]

\* Mutant of ZFill: no padding.
ZFill_NoPad(str, width) == str

\* str.zfill(width): zeros on the left up to width; never shortens.
ZFill(str, width) ==
    IF Len(str) >= width THEN str
    ELSE [i \in 1..(width - Len(str)) |-> "0"] \o str

\* [int(b) for b in chars]
CharsToInts(chars) == [i \in 1..Len(chars) |-> IF chars[i] = "1" THEN 1 ELSE 0]

\* Mutant of SecureLength: the margin is log2(1/eps), not twice that.
SecureLength_HalfMargin(n, h_eve, level) ==
    Max(0, IntTrunc(n * (Micro - h_eve) - Log2InvMicro(level)))

\* Lines 252-253: max(0, int(n * (1 - h_eve) - 2 * log2(1 / level)))
SecureLength(n, h_eve, level) ==
    Max(0, IntTrunc(n * (Micro - h_eve) - 2 * Log2InvMicro(level)))

\* Lines 258-272: the bits taken from the digests.
ExtractBits(sifted_key, length) ==
    LET key_str == KeyStr(sifted_key)
        binary_hash == ZFill(Bin(IntFromHex(Sha256Hex(key_str))), Sha256Bits)
        first_bits == CharsToInts(Take(binary_hash, length))
        binary_hash2 == ZFill(Bin(IntFromHex(Sha512Hex(key_str))), Sha512Bits)
        final_bits == IF length > Sha256Bits
                         THEN first_bits \o CharsToInts(Take(binary_hash2, length - Sha256Bits))
                         ELSE first_bits
    IN Take(final_bits, length)

\* Mutant of EveEntropy: an error rate of 1 or more counts as one full bit
\* of entropy per key bit.
EveEntropy_FullAtOne(e) ==
    IF RLeq(e, <<0, 1>>) THEN 0
    ELSE IF RLeq(<<1, 1>>, e) THEN Micro ELSE EntropyMicro(e)

\* Lines 245-249: h_eve, 0.0 when e <= 0.0 or e >= 1.0.
EveEntropy(e) ==
    IF RLeq(e, <<0, 1>>) \/ RLeq(<<1, 1>>, e) THEN 0 ELSE EntropyMicro(e)

\* privacy_amplification(sifted_key, error_rate, target_security_level):
\* the local secure_length (None when line 241 returns before it is
\* computed) and the returned list.
privacy_amplification(sifted_key, error_rate, target_security_level) ==
    LET level == IF target_security_level = None
                    THEN TARGET_SECURITY_LEVEL ELSE target_security_level
        n == Len(sifted_key)
        e == Clip01(error_rate)
        h_eve == EveEntropy(e)
        length == SecureLength(n, h_eve, level)
    IN IF n = 0 THEN [secure_length |-> None, final_bits |-> <<>>]
       ELSE IF length = 0 THEN [secure_length |-> 0, final_bits |-> <<>>]
       ELSE [secure_length |-> length, final_bits |-> ExtractBits(sifted_key, length)]

\* Sifted keys the call is tried on: a length and a bit pattern.
KeyLens == {0, 1, 8, 255, 256, 257, 300, 511, 512, 513, 767, 768, 769,
            1023, 1024, 1025, 1040, MaxKeyLen}

KeyPatterns == {"zeros", "ones", "alternating"}

\* The index after which the pattern "turned" is the complement of
\* "alternating".
TurnAt == 290

PatternKey(n, pat) ==
    [i \in 1..n |-> CASE pat = "zeros" -> 0
                      [] pat = "ones" -> 1
                      [] pat = "alternating" -> i % 2
                      [] pat = "turned" -> IF i <= TurnAt THEN i % 2 ELSE 1 - (i % 2)]

ErrorRates == {<<-1, 10>>, <<0, 1>>, <<1, 20>>, <<11, 100>>, <<1, 4>>,
               <<1, 2>>, <<1, 1>>, <<3, 2>>}

SecurityLevels == {None, "2^-128", "1e-6", "1", "128"}

PAStart ==
    /\ pa_pc = "call"
    /\ \E n \in KeyLens, pat \in KeyPatterns : pa_sifted_key = PatternKey(n, pat)
    /\ pa_error_rate \in ErrorRates
    /\ pa_level \in SecurityLevels
    /\ pa_secure_length = None
    /\ pa_ret = None
    /\ pa_first = Nothing

PAIdle ==
    /\ pa_pc = "idle" /\ pa_sifted_key = None /\ pa_error_rate = None
    /\ pa_level = None /\ pa_secure_length = None /\ pa_ret = None
    /\ pa_first = Nothing

\* One call of privacy_amplification, lines 235-272.
PACall ==
    /\ pa_pc = "call"
    /\ LET r == privacy_amplification(pa_sifted_key, pa_error_rate, pa_level)
       IN /\ pa_secure_length' = r.secure_length
          /\ pa_ret' = r.final_bits
    /\ pa_pc' = "done"
    /\ UNCHANGED <<pa_sifted_key, pa_error_rate, pa_level, pa_first>>
    /\ UNCHANGED notPA

\* The caller keeps what it passed and what it got, and calls again with
\* the same list, error rate and security level.
PAAgain ==
    /\ pa_pc = "done"
    /\ pa_first = Nothing
    /\ pa_first' = Some([sifted_key |-> pa_sifted_key, error_rate |-> pa_error_rate,
                         level |-> pa_level, final_bits |-> pa_ret])
    /\ pa_pc' = "call"
    /\ UNCHANGED <<pa_sifted_key, pa_error_rate, pa_level, pa_secure_length, pa_ret>>
    /\ UNCHANGED notPA

(***************************************************************************)
(* assess_security                                                         *)
(***************************************************************************)
\* config.DEFAULT_QBER_THRESHOLD (bb84_config is not among the sources):
\* 0.11, the default the docstring of assess_security gives.
DEFAULT_QBER_THRESHOLD == <<11, 100>>

\* Lines 337-342: the dict returned when qber <= threshold.  The message
\* is held as its text and the value formatted into it.
SecureVerdict(qber) ==
    [status |-> "SECURE", message |-> <<"below threshold", qber>>,
     action |-> "PROCEED_WITH_KEY", color |-> "green"]

\* Mutant of InsecureVerdict: the dict also carries the two inputs.
InsecureVerdict_WithInputs(qber, t) ==
    [status |-> "INSECURE", message |-> <<"exceeds threshold", qber, t>>,
     action |-> "ABORT_AND_RETRY", color |-> "red",
     qber |-> qber, threshold |-> t]

\* Lines 344-348: the dict returned otherwise.
InsecureVerdict(qber, t) ==
    [status |-> "INSECURE", message |-> <<"exceeds threshold", qber, t>>,
     action |-> "ABORT_AND_RETRY", color |-> "red"]

\* Mutant of assess_security: the boundary is exclusive.
assess_security_Strict(qber, threshold) ==
    LET t == IF threshold = None THEN DEFAULT_QBER_THRESHOLD ELSE threshold
    IN IF RLess(qber, t) THEN SecureVerdict(qber) ELSE InsecureVerdict(qber, t)

\* assess_security(qber, threshold), lines 332-348.
assess_security(qber, threshold) ==
    LET t == IF threshold = None THEN DEFAULT_QBER_THRESHOLD ELSE threshold
    IN IF RLeq(qber, t) THEN SecureVerdict(qber) ELSE InsecureVerdict(qber, t)

QberValues == {<<k, m>> : k \in 0..4, m \in 1..4} \cup
              {<<10, 100>>, <<11, 100>>, <<12, 100>>}

ThresholdValues == {None, <<0, 100>>, <<5, 100>>, <<10, 100>>, <<11, 100>>,
                    <<12, 100>>, <<25, 100>>, <<50, 100>>, <<100, 100>>}

ASStart ==
    /\ as_pc = "call"
    /\ as_qber \in {q \in QberValues : q[1] <= q[2]}
    /\ as_threshold \in ThresholdValues
    /\ as_ret = None

ASIdle == as_pc = "idle" /\ as_qber = None /\ as_threshold = None /\ as_ret = None

\* One call of assess_security.
ASCall ==
    /\ as_pc = "call"
    /\ as_ret' = assess_security(as_qber, as_threshold)
    /\ as_pc' = "done"
    /\ UNCHANGED <<as_qber, as_threshold>>
    /\ UNCHANGED notAS

(***************************************************************************)
(* The app (bb84_2.py): the session state, the parameter sliders and       *)
(* run_bb84_simulation with its compute_scenario                           *)
(***************************************************************************)
\* Values of the "Qubits to Transmit" slider the model draws: the short runs
\* are tried on every array, the long run on patterned arrays.  (The ranges
\* and defaults of the sliders come from bb84_config, which is not among
\* the sources.)
SmallBits == {0, 1}

LongBits == {300}

NumBitsValues == SmallBits \cup LongBits

\* Values of the "QBER Threshold" slider: 0.05 and 0.11.
SliderThresholds == {<<5, 100>>, <<11, 100>>}

\* Values of the "Eve Intercept Probability" slider, in percent.
EveProbValues == {0, 100}

\* Values of the "Channel Noise Probability" slider, in percent.
NoiseProbValues == {0, 50}

SliderKeys == {"num_bits", "threshold", "eve_prob", "noise_prob"}

\* The values a slider can be moved to in a session whose num_bits is n.  A
\* session stays with short runs or with long runs (the "Qubits to
\* Transmit" slider moves within SmallBits or within LongBits), and long
\* runs are tried on a channel without noise.
SliderValues(key, n) ==
    CASE key = "num_bits"   -> IF n \in SmallBits THEN SmallBits ELSE LongBits
      [] key = "threshold"  -> SliderThresholds
      [] key = "eve_prob"   -> EveProbValues
      [] key = "noise_prob" -> IF n \in SmallBits THEN NoiseProbValues
                                                  ELSE NoiseProbValues \ {50}

\* The bit patterns a long array is drawn from.
LongPatterns == {"alternating"}

\* np.random.randint(0, 2, n): the arrays the model draws.
RandomBits(n) ==
    IF n \in SmallBits THEN SeqOfLen(Bit, n)
    ELSE {PatternKey(n, pat) : pat \in LongPatterns}

\* The bit patterns Bob's long array of bases is drawn from: equal to
\* Alice's up to an index and different after it.
LongBobPatterns == {"turned"}

\* np.random.randint(0, 2, n) of line 642.
RandomBobBases(n) ==
    IF n \in SmallBits THEN SeqOfLen(Bit, n)
    ELSE {PatternKey(n, pat) : pat \in LongBobPatterns}

\* simulate_transmission at one index (lines 103-184): every pair of Bob's
\* result and Eve's recorded result that Eve's basis, her intercept
\* decision, the two measurements and the noise flip can produce.
IndexOutcomes(abit, abasis, bbasis, eve, p, noise) ==
    UNION { UNION { UNION {
        { <<IF fl THEN 1 - b ELSE b, e>> :
             b \in RunOutcomes(BobMeasureCircuit(
                      IF icpt THEN EveResendCircuit(e, ebasis)
                              ELSE AliceSendCircuit(abit, abasis),
                      bbasis)),
             fl \in NoiseFlips(noise) }
        : e \in (IF icpt THEN RunOutcomes(EveMeasureCircuit(abit, ebasis)) ELSE {0}) }
        : icpt \in (IF eve THEN InterceptDraws(p) ELSE {FALSE}) }
        : ebasis \in Bit }

\* IndexOutcomes, tabulated over the values the model draws.
IndexOutcomeTable ==
    [abit \in Bit, abasis \in Bit, bbasis \in Bit, eve \in BOOLEAN,
     p \in ProbValues, noise \in NoiseProbValues |->
        IndexOutcomes(abit, abasis, bbasis, eve, p, noise)]

\* How the random draws of one call fall: Bob's result agrees with Alice's
\* bit wherever the draws allow it, or differs wherever they allow it, or
\* differs at every tenth index; Eve's recorded result is the highest the
\* draws allow next to Bob's.
BobPolicies == {"faithful", "flipped", "tenth"}

WantsFlip(policy, i) ==
    CASE policy = "faithful" -> FALSE
      [] policy = "flipped"  -> TRUE
      [] policy = "tenth"    -> i % 10 = 0

PickBob(outcomes, abit, flip) ==
    LET want == IF flip THEN 1 - abit ELSE abit
    IN IF \E o \in outcomes : o[1] = want THEN want ELSE 1 - want

PickEve(outcomes, b) ==
    LET es == {o[2] : o \in {x \in outcomes : x[1] = b}}
    IN CHOOSE e \in es : \A f \in es : e >= f

\* simulate_transmission(alice_bits, alice_bases, bob_bases, eve_present,
\* eve_intercept_prob, noise_prob) as one call: the returned tuple under
\* the given fall of the draws.
simulate_transmission(abits, abases, bbases, eve, p, noise, bpol) ==
    LET n == Len(abits)
        bob == [i \in 1..n |->
                   PickBob(IndexOutcomeTable[abits[i], abases[i], bbases[i], eve, p, noise],
                           abits[i], WantsFlip(bpol, i))]
        evr == [i \in 1..n |->
                   PickEve(IndexOutcomeTable[abits[i], abases[i], bbases[i], eve, p, noise],
                           bob[i])]
    IN <<bob, IF eve THEN Some(evr) ELSE Nothing>>

\* Mutant of create_transmission_timeline: Error is set wherever the bits
\* differ, also where the bases differ.
create_transmission_timeline_AnyError(abits, abases, bbases, bob) ==
    [i \in 1..Len(abits) |->
        [BitIndex |-> i, AliceBit |-> abits[i], AliceBasis |-> abases[i],
         BobBasis |-> bbases[i], BobResult |-> bob[i],
         Used |-> abases[i] = bbases[i],
         Error |-> abits[i] # bob[i]]]

\* create_transmission_timeline (bb84_utils is not among the sources): one
\* record per index, in index order.
create_transmission_timeline(abits, abases, bbases, bob) ==
    [i \in 1..Len(abits) |->
        [BitIndex |-> i, AliceBit |-> abits[i], AliceBasis |-> abases[i],
         BobBasis |-> bbases[i], BobResult |-> bob[i],
         Used |-> abases[i] = bbases[i],
         Error |-> abases[i] = bbases[i] /\ abits[i] # bob[i]]]

IsUsed(record) == record.Used

\* Mutant of UsedRecords: no row is filtered out.
UsedRecords_All(timeline) == timeline

\* compute_scenario, line 667: the rows of the timeline with Used == True,
\* in the timeline's order.
UsedRecords(timeline) == SelectSeq(timeline, IsUsed)

\* compute_scenario, line 673: the AliceBit column of the used rows.
SiftedKey(used) == [i \in 1..Len(used) |-> used[i].AliceBit]

\* Mutant of ScenarioQber: an empty sifted set counts as all errors.
ScenarioQber_EmptyIsOne(errors, count) ==
    IF count > 0 THEN <<errors, count>> ELSE <<1, 1>>

\* compute_scenario, line 670: errors / len(used) if len(used) > 0 else 0.0
ScenarioQber(errors, count) ==
    IF count > 0 THEN <<errors, count>> ELSE <<0, 1>>

\* Mutant of ScenarioAmplifies: the key is distilled whatever the verdict.
ScenarioAmplifies_Always(status) == TRUE

\* Line 674: the condition under which compute_scenario calls
\* privacy_amplification.
ScenarioAmplifies(status) == status = "SECURE"

\* compute_scenario(bob_results), lines 664-684, with the variables of
\* run_bb84_simulation it closes over.
compute_scenario(bob, abits, abases, bbases, threshold) ==
    LET timeline == create_transmission_timeline(abits, abases, bbases, bob)
        used == UsedRecords(timeline)
        errors == Cardinality({i \in 1..Len(used) : used[i].Error})
        qber == ScenarioQber(errors, Len(used))
        sec == assess_security(qber, threshold)
        sifted_key == SiftedKey(used)
        final_key == IF ScenarioAmplifies(sec.status)
                        THEN privacy_amplification(sifted_key, qber, None).final_bits
                        ELSE <<>>
    IN [timeline |-> timeline, errors |-> errors, qber |-> qber,
        status |-> sec.status, sifted_count |-> Len(used),
        final_key_length |-> Len(final_key), final_key |-> final_key]

\* The call of privacy_amplification a scenario made, if it made one: the
\* sifted key and the error rate passed, and the threshold and the verdict
\* of the scenario.
ScenarioCalls(scenario, threshold) ==
    IF ScenarioAmplifies(scenario.status)
       THEN << [sifted_key |-> SiftedKey(UsedRecords(scenario.timeline)),
                qber |-> scenario.qber, threshold |-> threshold,
                status |-> scenario.status] >>
       ELSE <<>>

\* _initialize_session_state, lines 514-579: the keys run_bb84_simulation
\* and the sliders use.
SessionStart ==
    /\ session_state \in
          [num_bits : NumBitsValues, threshold : SliderThresholds,
           eve_prob : EveProbValues, noise_prob : NoiseProbValues,
           eve_attack : {"Intercept-Resend"}, window : {"DEFAULT_WINDOW_SIZE"},
           simulation_run : {FALSE}, simulation_completed : {FALSE},
           simulation_in_progress : {FALSE}, simulation_count : {0},
           sim_results : {Nothing}, alice_bits_stored : {Nothing},
           alice_bases_stored : {Nothing}, bob_bases_stored : {Nothing}]
    /\ \A key \in SliderKeys :
          session_state[key] \in SliderValues(key, session_state.num_bits)
    /\ run_pc = "idle"
    /\ run_locals = Nothing
    /\ pa_calls = <<>>
    /\ lock_pc = None

\* No session is open.
SessionIdle ==
    /\ session_state = Nothing /\ run_pc = "off"
    /\ run_locals = Nothing /\ pa_calls = <<>>
    /\ lock_pc = None

\* Lines 1843-1872: the user moves one of the parameter sliders.
SliderChange ==
    /\ run_pc = "idle"
    /\ \E key \in SliderKeys :
          \E v \in SliderValues(key, session_state.num_bits) :
             /\ v # session_state[key]
             /\ session_state' = [session_state EXCEPT ![key] = v]
    /\ UNCHANGED <<run_pc, run_locals, pa_calls>>
    /\ UNCHANGED notApp

\* Lines 1911-1914 and 621-647: the Run button is pressed; past the guard,
\* run_bb84_simulation takes the lock, reads the parameters, draws the
\* arrays of Alice and Bob and stores them.
RunEnter ==
    /\ run_pc = "idle"
    /\ IF session_state.simulation_in_progress
          THEN /\ session_state' = [session_state EXCEPT !.simulation_run = TRUE]
               /\ UNCHANGED <<run_pc, run_locals, pa_calls>>
          ELSE \E abits \in RandomBits(session_state.num_bits) :
               \E abases \in RandomBits(session_state.num_bits) :
               \E bbases \in RandomBobBases(session_state.num_bits) :
                  /\ run_locals' =
                        Some([num_bits |-> session_state.num_bits,
                              threshold |-> session_state.threshold,
                              eve_prob |-> session_state.eve_prob,
                              eve_attack |-> session_state.eve_attack,
                              noise_prob |-> session_state.noise_prob,
                              window |-> session_state.window,
                              alice_bits |-> abits, alice_bases |-> abases,
                              bob_bases |-> bbases])
                  /\ session_state' =
                        [session_state EXCEPT !.simulation_run = TRUE,
                                              !.simulation_in_progress = TRUE,
                                              !.alice_bits_stored = Some(abits),
                                              !.alice_bases_stored = Some(abases),
                                              !.bob_bases_stored = Some(bbases)]
                  /\ run_pc' = "body"
                  /\ pa_calls' = <<>>
    /\ UNCHANGED notApp

\* Mutant of EveScenarioBobBases: the second scenario gets bases of Bob
\* of its own.
EveScenarioBobBases_Other(l) == [i \in 1..Len(l.bob_bases) |-> 1 - l.bob_bases[i]]

\* Lines 664-666 and 687: compute_scenario closes over the bob_bases of the
\* invocation, so the second scenario is tabulated against the same array
\* as the first.
EveScenarioBobBases(l) == l.bob_bases

\* Lines 649-708: the two transmissions, the two scenarios, the stored
\* results, simulation_completed.
RunBody ==
    /\ run_pc = "body"
    /\ \E bpol_no \in BobPolicies :
          LET l == run_locals[1]
              tx_no == simulate_transmission(l.alice_bits, l.alice_bases, l.bob_bases,
                                             FALSE, 50, l.noise_prob, bpol_no)
              no_eve_results == compute_scenario(tx_no[1], l.alice_bits, l.alice_bases,
                                                 l.bob_bases, l.threshold)
          IN \E bpol_eve \in BobPolicies :
                LET tx_eve == simulate_transmission(l.alice_bits, l.alice_bases,
                                                    l.bob_bases, TRUE, l.eve_prob,
                                                    l.noise_prob, bpol_eve)
                    eve_scenario == compute_scenario(tx_eve[1], l.alice_bits,
                                                     l.alice_bases,
                                                     EveScenarioBobBases(l),
                                                     l.threshold)
                IN /\ session_state' =
                         [session_state EXCEPT
                             !.sim_results =
                                 Some([no_eve |-> no_eve_results,
                                       eve |-> eve_scenario,
                                       bob_no_eve |-> tx_no[1],
                                       bob_eve |-> tx_eve[1],
                                       eve_eavesdropper_results_no |-> tx_no[2],
                                       eve_eavesdropper_results_eve |-> tx_eve[2],
                                       parameters |->
                                           [num_bits |-> l.num_bits,
                                            threshold |-> l.threshold,
                                            eve_prob |-> l.eve_prob,
                                            eve_attack |-> l.eve_attack,
                                            noise_prob |-> l.noise_prob,
                                            window |-> l.window]]),
                             !.simulation_completed = TRUE]
                   /\ pa_calls' = ScenarioCalls(no_eve_results, l.threshold)
                                     \o ScenarioCalls(eve_scenario, l.threshold)
    /\ run_pc' = "finally"
    /\ UNCHANGED run_locals
    /\ UNCHANGED notApp

\* Mutant of RunRaise: a failed run drops the results of the run before.
RunRaise_DropsResults ==
    /\ run_pc = "body"
    /\ run_pc' = "finally"
    /\ session_state' = [session_state EXCEPT !.sim_results = Nothing]
    /\ UNCHANGED <<run_locals, pa_calls>>
    /\ UNCHANGED notApp

\* Lines 626-707 raise (a transmission or a scenario fails): nothing more
\* is stored and the finally clause is next.
RunRaise ==
    /\ run_pc = "body"
    /\ run_pc' = "finally"
    /\ UNCHANGED <<session_state, run_locals, pa_calls>>
    /\ UNCHANGED notApp

\* Lines 710-712: the lock is released and run_bb84_simulation returns.
RunFinally ==
    /\ run_pc = "finally"
    /\ session_state' = [session_state EXCEPT !.simulation_in_progress = FALSE]
    /\ run_pc' = "idle"
    /\ run_locals' = Nothing
    /\ UNCHANGED pa_calls
    /\ UNCHANGED notApp

\* render_metrics_display, lines 812-843 (and the decision line of line
\* 932): the threshold passed to qber_gauge next to the scenarios.
GaugeThreshold == session_state.threshold

\* _get_session_summary, lines 597-609: the entry simulations_run.
simulations_run == session_state.simulation_count

(***************************************************************************)
(* Two invocations of run_bb84_simulation in one session, step by step.    *)
(* The arrays and the results are stood for by the invocation that stored  *)
(* them.                                                                   *)
(***************************************************************************)
\* The two invocations.
Invocations == {1, 2}

\* _initialize_session_state, lines 527-538: the flags and the stored data.
LockStart ==
    /\ session_state = [simulation_run |-> FALSE, simulation_completed |-> FALSE,
                        simulation_in_progress |-> FALSE,
                        alice_bits_stored |-> Nothing, sim_results |-> Nothing]
    /\ lock_pc = [i \in Invocations |-> "button"]
    /\ run_pc = "off" /\ run_locals = Nothing /\ pa_calls = <<>>

\* Lines 1911-1914: the button is pressed, simulation_run is set and
\* run_bb84_simulation is called.
LockPress(i) ==
    /\ lock_pc[i] = "button"
    /\ session_state' = [session_state EXCEPT !.simulation_run = TRUE]
    /\ lock_pc' = [lock_pc EXCEPT ![i] = "guard"]
    /\ UNCHANGED notLock

\* Lines 621-622: the flag is read; the invocation returns if it is set.
LockGuard(i) ==
    /\ lock_pc[i] = "guard"
    /\ lock_pc' = [lock_pc EXCEPT ![i] =
                      IF session_state.simulation_in_progress THEN "rejected"
                                                              ELSE "lock"]
    /\ UNCHANGED session_state
    /\ UNCHANGED notLock

\* Line 624: the flag is set.
LockTake(i) ==
    /\ lock_pc[i] = "lock"
    /\ session_state' = [session_state EXCEPT !.simulation_in_progress = TRUE]
    /\ lock_pc' = [lock_pc EXCEPT ![i] = "body"]
    /\ UNCHANGED notLock

\* Lines 627-647: the parameters are read, the arrays drawn and stored.
LockArrays(i) ==
    /\ lock_pc[i] = "body"
    /\ session_state' = [session_state EXCEPT !.alice_bits_stored = Some(i)]
    /\ lock_pc' = [lock_pc EXCEPT ![i] = "scenarios"]
    /\ UNCHANGED notLock

\* Lines 649-705: the transmissions and the scenarios; the results are
\* stored.
LockScenarios(i) ==
    /\ lock_pc[i] = "scenarios"
    /\ session_state' = [session_state EXCEPT !.sim_results = Some(i)]
    /\ lock_pc' = [lock_pc EXCEPT ![i] = "complete"]
    /\ UNCHANGED notLock

\* Lines 707-708: simulation_completed is set.
LockComplete(i) ==
    /\ lock_pc[i] = "complete"
    /\ session_state' = [session_state EXCEPT !.simulation_completed = TRUE]
    /\ lock_pc' = [lock_pc EXCEPT ![i] = "finally"]
    /\ UNCHANGED notLock

\* A statement of the try block (lines 627-708) raises.
LockRaise(i) ==
    /\ lock_pc[i] \in {"body", "scenarios", "complete"}
    /\ lock_pc' = [lock_pc EXCEPT ![i] = "finally_exc"]
    /\ UNCHANGED session_state
    /\ UNCHANGED notLock

\* Mutant of LockFinally: the flag is cleared after the try block, where an
\* exception does not pass.
LockFinally_NormalOnly(i) ==
    /\ lock_pc[i] \in {"finally", "finally_exc"}
    /\ session_state' = [session_state EXCEPT !.simulation_in_progress =
                            IF lock_pc[i] = "finally" THEN FALSE ELSE @]
    /\ lock_pc' = [lock_pc EXCEPT ![i] =
                      IF lock_pc[i] = "finally" THEN "returned" ELSE "raised"]
    /\ UNCHANGED notLock

\* Lines 710-712: the finally clause clears the flag; the invocation returns
\* or the exception goes on to the caller.
LockFinally(i) ==
    /\ lock_pc[i] \in {"finally", "finally_exc"}
    /\ session_state' = [session_state EXCEPT !.simulation_in_progress = FALSE]
    /\ lock_pc' = [lock_pc EXCEPT ![i] =
                      IF lock_pc[i] = "finally" THEN "returned" ELSE "raised"]
    /\ UNCHANGED notLock

\* The script run that made the invocation is over; the button can be
\* pressed again.
LockRerun(i) ==
    /\ lock_pc[i] \in {"returned", "raised", "rejected"}
    /\ lock_pc' = [lock_pc EXCEPT ![i] = "button"]
    /\ UNCHANGED session_state
    /\ UNCHANGED notLock

\* The steps of invocation i from the guard to its end: once called, the
\* function goes on running.
LockProceed(i) ==
    \/ LockGuard(i) \/ LockTake(i) \/ LockArrays(i) \/ LockScenarios(i)
    \/ LockComplete(i) \/ LockRaise(i) \/ LockFinally(i)

(***************************************************************************)
(* Specifications                                                          *)
(***************************************************************************)
Init == SessionStart /\ TxIdle /\ PAIdle /\ ASIdle

Next == SliderChange \/ RunEnter \/ RunBody \/ RunRaise \/ RunFinally

Spec == Init /\ [][Next]_vars

TxInit == TxStart /\ PAIdle /\ ASIdle /\ SessionIdle

TxNext == TxSetup \/ TxBatch \/ TxIndexError

TxSpec == TxInit /\ [][TxNext]_vars

ReproInit == ReproStart /\ PAIdle /\ ASIdle /\ SessionIdle

ReproNext == TxSetup \/ TxBatch \/ TxIndexError \/ TxAgain

ReproSpec == ReproInit /\ [][ReproNext]_vars

BatchInit == BatchStart /\ PAIdle /\ ASIdle /\ SessionIdle

\* Arrays of one length are never read past their end.
BatchNext == TxSetup \/ TxBatch

BatchSpec == BatchInit /\ [][BatchNext]_vars

PAInit == PAStart /\ TxIdle /\ ASIdle /\ SessionIdle

PANext == PACall \/ PAAgain

PASpec == PAInit /\ [][PANext]_vars

AssessInit == ASStart /\ TxIdle /\ PAIdle /\ SessionIdle

AssessNext == ASCall

AssessSpec == AssessInit /\ [][AssessNext]_vars

LockInit == LockStart /\ TxIdle /\ PAIdle /\ ASIdle

LockNext ==
    \E i \in Invocations :
       \/ LockPress(i) \/ LockGuard(i) \/ LockTake(i) \/ LockArrays(i)
       \/ LockScenarios(i) \/ LockComplete(i) \/ LockRaise(i)
       \/ LockFinally(i) \/ LockRerun(i)

LockSpec == LockInit /\ [][LockNext]_vars

\* An invocation that has been called goes on to its end.
LockFairSpec == LockSpec /\ \A i \in Invocations : WF_vars(LockProceed(i))

(***************************************************************************)
(* Properties of repeated calls of privacy_amplification (under PASpec)    *)
(***************************************************************************)
\* The caller has called twice with the same arguments and the second call
\* has returned.
PASecondDone == pa_pc = "done" /\ pa_first # Nothing

StoredScenarios ==
    IF session_state.sim_results = Nothing THEN {}
    ELSE {session_state.sim_results[1].no_eve, session_state.sim_results[1].eve}

\* A step of RunBody that stores new results.
StoresResults ==
    run_pc = "body" /\ session_state'.sim_results # session_state.sim_results

\* The timeline is the tabulation of the four arrays.
Tabulated(timeline, abits, abases, bbases, bob) ==
    /\ Len(timeline) = Len(abits)
    /\ \A i \in 1..Len(abits) :
          /\ timeline[i].BitIndex = i
          /\ timeline[i].AliceBit = abits[i]
          /\ timeline[i].AliceBasis = abases[i]
          /\ timeline[i].BobBasis = bbases[i]
          /\ timeline[i].BobResult = bob[i]
          /\ timeline[i].Used = (abases[i] = bbases[i])
          /\ timeline[i].Error = (timeline[i].Used /\ abits[i] # bob[i])
          /\ (abases[i] # bbases[i]) => ~timeline[i].Error
    /\ (\A i \in 1..Len(abits) : abases[i] = bbases[i] /\ bob[i] = abits[i])
          => \A i \in 1..Len(abits) : timeline[i].Used /\ ~timeline[i].Error

\* C12: timeline tabulation.  The timeline a scenario stores has exactly
\* N records in index order, record i holding the inputs of index i, with
\* Used[i] = (alice_bases[i] = bob_bases[i]) and Error[i] = Used[i] and
\* (alice_bits[i] # bob_results[i]); Error is false where the bases differ,
\* and with equal bases and bob_results = alice_bits every record has Used
\* true and Error false.
C12_TimelineTabulation ==
    [][StoresResults =>
          LET l == run_locals[1]
              r == session_state'.sim_results[1]
          IN /\ Tabulated(r.no_eve.timeline, l.alice_bits, l.alice_bases,
                          l.bob_bases, r.bob_no_eve)
             /\ Tabulated(r.eve.timeline, l.alice_bits, l.alice_bases,
                          l.bob_bases, r.bob_eve)]_vars

\* C12 witness: a stored timeline has a record whose bases differ and whose
\* bits differ.
C12_Witness ==
    /\ session_state.sim_results # Nothing
    /\ \E s \in StoredScenarios :
          \E i \in 1..Len(s.timeline) :
             /\ ~s.timeline[i].Used
             /\ s.timeline[i].AliceBit # s.timeline[i].BobResult

\* The indices of the records with Used = true.
UsedIndices(timeline) == {i \in 1..Len(timeline) : timeline[i].Used}

\* The records lo..hi of the timeline, k records being used before lo: each
\* used record gives the item of key whose position is the number of used
\* records up to it.
RECURSIVE SiftedRange(_, _, _, _, _)
SiftedRange(key, timeline, lo, hi, k) ==
    IF lo > hi THEN TRUE
    ELSE IF lo = hi
            THEN timeline[lo].Used =>
                    (k < Len(key) /\ key[k + 1] = timeline[lo].AliceBit)
            ELSE LET mid == (lo + hi) \div 2
                     left == Cardinality({j \in lo..mid : timeline[j].Used})
                 IN /\ SiftedRange(key, timeline, lo, mid, k)
                    /\ SiftedRange(key, timeline, mid + 1, hi, k + left)

\* key holds, in increasing index order, the AliceBit of the records with
\* Used = true and nothing else.
SiftedFrom(key, timeline) ==
    /\ Len(key) = Cardinality(UsedIndices(timeline))
    /\ SiftedRange(key, timeline, 1, Len(timeline), 0)

\* C13: sifting.  The sifted key a scenario passes to privacy_amplification
\* is the sequence of AliceBit values of exactly the records with Used =
\* true, in increasing index order; its length is count(Used), which is the
\* stored sifted_count; the stored errors is the number of those records
\* with Error = true and the stored qber is errors divided by that count.
C13_Sifting ==
    [][StoresResults =>
          LET r == session_state'.sim_results[1]
          IN /\ \A s \in {r.no_eve, r.eve} :
                   LET U == UsedIndices(s.timeline)
                   IN /\ s.sifted_count = Cardinality(U)
                      /\ s.errors = Cardinality({i \in U : s.timeline[i].Error})
                      /\ Cardinality(U) > 0 =>
                            s.qber = <<s.errors, Cardinality(U)>>
             /\ \A k \in 1..Len(pa_calls') :
                   SiftedFrom(pa_calls'[k].sifted_key, r.no_eve.timeline)]_vars

\* C13 witness: a stored scenario sifted some records and dropped others,
\* counted an error among the sifted ones, and its sifted key went to
\* privacy_amplification.
C13_Witness ==
    /\ session_state.sim_results # Nothing
    /\ \E s \in StoredScenarios :
          /\ s.sifted_count > 0
          /\ s.sifted_count < Len(s.timeline)
          /\ s.errors > 0
          /\ s.status = "SECURE"
    /\ \E k \in 1..Len(pa_calls) : Len(pa_calls[k].sifted_key) > 0

\* C15: empty sifted set.  A stored scenario in which no index has matching
\* bases has qber 0, and its results were stored (no error was raised); its
\* verdict is SECURE, as it is for every threshold >= 0, and its final key
\* is empty.
C15_EmptySiftedSet ==
    \A s \in StoredScenarios :
       UsedIndices(s.timeline) = {} =>
          /\ s.sifted_count = 0
          /\ s.errors = 0
          /\ s.qber[1] = 0 /\ s.qber[2] > 0
          /\ s.status = "SECURE"
          /\ \A t \in {<<0, 100>>, <<1, 100>>, <<11, 100>>, <<100, 100>>} :
                assess_security(s.qber, t).status = "SECURE"
          /\ s.final_key = <<>> /\ s.final_key_length = 0

\* C15 witness: a run of one qubit whose bases differ has stored its
\* scenarios, after privacy_amplification was called on the empty key.
C15_Witness ==
    /\ session_state.sim_results # Nothing
    /\ \E s \in StoredScenarios :
          /\ Len(s.timeline) > 0
          /\ UsedIndices(s.timeline) = {}
    /\ \E k \in 1..Len(pa_calls) : pa_calls[k].sifted_key = <<>>

\* C5: a final key is produced only under a SECURE verdict.  Every stored
\* scenario result with status INSECURE has the empty final key and
\* final_key_length 0, and every call of privacy_amplification a run made
\* followed a verdict SECURE of assess_security on the scenario's qber and
\* the run's threshold.
C5_KeyOnlyWhenSecure ==
    /\ \A s \in StoredScenarios :
          s.status = "INSECURE" => (s.final_key = <<>> /\ s.final_key_length = 0)
    /\ \A k \in 1..Len(pa_calls) :
          /\ pa_calls[k].status = "SECURE"
          /\ assess_security(pa_calls[k].qber, pa_calls[k].threshold).status = "SECURE"

\* C5 witness: a run has stored a SECURE scenario with a final key of at
\* least one bit next to an INSECURE scenario, after one call of
\* privacy_amplification.
C5_Witness ==
    /\ run_pc = "finally"
    /\ session_state.sim_results # Nothing
    /\ session_state.sim_results[1].no_eve.status = "SECURE"
    /\ session_state.sim_results[1].no_eve.final_key_length > 0
    /\ session_state.sim_results[1].eve.status = "INSECURE"
    /\ session_state.sim_results[1].eve.sifted_count > 0
    /\ Len(pa_calls) = 1

(***************************************************************************)
(* Properties of simulate_transmission (checked under TxSpec)              *)
(***************************************************************************)
TxDone == tx_pc = "done"

TxIndices == 1..Len(alice_bits)

\* C14: output shape of simulate_transmission.  bob_results has length
\* N = len(alice_bits) and every entry in {0,1}, also after a noise flip;
\* eve_results is None when eve_present is false, and otherwise a list of
\* length N with every entry in {0,1}.
C14_OutputShape ==
    TxDone =>
       /\ Len(tx_ret[1]) = Len(alice_bits)
       /\ \A i \in TxIndices : tx_ret[1][i] \in Bit
       /\ IF eve_present
             THEN /\ Len(tx_ret[2]) = Len(alice_bits)
                  /\ \A i \in TxIndices : tx_ret[2][i] \in Bit
             ELSE tx_ret[2] = None

\* C14 witness: a finished call with Eve present in which some result of
\* Bob is not an outcome of the circuit he measured: it was flipped.
C14_Witness ==
    /\ TxDone /\ eve_present /\ noise_prob > 0
    /\ Len(tx_ret[1]) = MaxN
    /\ \E i \in TxIndices : tx_ret[1][i] \notin RunOutcomes(bob_jobs[i])

\* C18: index alignment under batching.  For every N and every batch size,
\* in a finished call eve_results[i] is an outcome of Eve's measurement of
\* index i's own bit in her basis for i (0 where she did not intercept),
\* the circuit Bob measured for index i is built from index i's own inputs
\* and Eve's result for i, and bob_results[i] is an outcome of that circuit,
\* flipped or not by the noise: what processing index i alone gives.  With
\* Bob in Alice's bases, no noise and no Eve, bob_results is alice_bits.
C18_IndexAlignment ==
    TxDone =>
       /\ \A i \in TxIndices :
             /\ Intercepted(i) =>
                   /\ eve_jobs[i] = EveMeasureCircuit(alice_bits[i], eve_bases[i])
                   /\ tx_ret[2][i] \in RunOutcomes(eve_jobs[i])
             /\ (eve_present /\ ~Intercepted(i)) => tx_ret[2][i] = 0
             /\ bob_jobs[i] =
                   BobMeasureCircuit(
                      IF Intercepted(i)
                         THEN EveResendCircuit(tx_ret[2][i], eve_bases[i])
                         ELSE AliceSendCircuit(alice_bits[i], alice_bases[i]),
                      bob_bases[i])
             /\ tx_ret[1][i] \in
                   {NoiseFlip(b, fl) : b \in RunOutcomes(bob_jobs[i]),
                                       fl \in NoiseFlips(noise_prob)}
       /\ (~eve_present /\ noise_prob = 0 /\ bob_bases = alice_bases)
             => tx_ret[1] = alice_bits

\* C18 witness: a finished call of three indices in batches of two, the
\* last batch holding the third index alone, whose bits are not all equal.
C18_Witness ==
    /\ TxDone /\ ~eve_present
    /\ batch_size = 2 /\ Len(alice_bits) = 3
    /\ alice_bits[1] # alice_bits[2] /\ alice_bits[2] # alice_bits[3]
    /\ tx_ret[1] = alice_bits

\* C29: Eve's record where she did not intercept.  When eve_present is
\* true, eve_results[i] is 0 at every index Eve did not intercept, and no
\* measurement of hers was run for it; at an intercepted index it is an
\* outcome of her one measurement.
C29_UninterceptedZero ==
    (TxDone /\ eve_present) =>
       \A i \in TxIndices :
          IF Intercepted(i)
             THEN eve_jobs[i] # None /\ tx_ret[2][i] \in RunOutcomes(eve_jobs[i])
             ELSE eve_jobs[i] = None /\ tx_ret[2][i] = 0

\* Eve measured 0 at one index and did not measure at another: both entries
\* of eve_results are 0.
C29_Witness ==
    /\ TxDone /\ eve_present /\ Len(alice_bits) = 2
    /\ Intercepted(1) /\ ~Intercepted(2)
    /\ eve_jobs[1] # None /\ eve_jobs[2] = None
    /\ tx_ret[2] = <<0, 0>>

\* The second of two calls with the same arguments has returned.
TxSecondDone == TxDone /\ tx_first # Nothing

\* C19: reproducibility.  Two calls of simulate_transmission with the same
\* inputs return identical (bob_results, eve_results).
C19_Reproducible ==
    TxSecondDone => tx_ret = tx_first[1]

\* The three arrays of the call do not all have the same length.
LengthsDiffer ==
    Len(alice_bases) # Len(alice_bits) \/ Len(bob_bases) # Len(alice_bits)

\* C16: array-length validation.  When alice_bits, alice_bases and bob_bases
\* do not all have the same length, the call does not get past its setup
\* except by failing before any index is simulated, and it never returns.
C16_LengthValidation ==
    LengthsDiffer =>
       /\ tx_pc \in {"setup", "raised"}
       /\ tx_pc = "raised" =>
             (batch_start = 0 /\ \A i \in TxIndices : bob_jobs[i] = None)

\* One of the two probabilities of the call lies outside [0,1].
ProbOutOfRange ==
    eve_intercept_prob \notin 0..100 \/ noise_prob \notin 0..100

\* C17: probability validation.  When eve_intercept_prob or noise_prob lies
\* outside [0,1], the call does not get past its setup except by failing,
\* and it never returns a result.
C17_ProbabilityValidation ==
    ProbOutOfRange => tx_pc \in {"setup", "raised"}

\* C1: matched-basis determinism.  A symbol encoded as (bit, basis) and
\* measured in the same basis yields bit; and in a finished call with
\* noise_prob = 0, every index Eve did not intercept and whose bases match
\* has bob_results[i] = alice_bits[i].
C1_MatchedBasisDeterminism ==
    /\ \A bit \in Bit, basis \in Bit :
          RunOutcomes(BobMeasureCircuit(encode_qubit(bit, basis), basis)) = {bit}
    /\ (TxDone /\ noise_prob = 0) =>
          \A i \in TxIndices :
             (~Intercepted(i) /\ alice_bases[i] = bob_bases[i])
                => tx_ret[1][i] = alice_bits[i]

\* C1 witness: a finished noiseless call with Eve present in which an index
\* she let pass, sent and measured in the diagonal basis, carries bit 1.
C1_Witness ==
    /\ TxDone /\ noise_prob = 0 /\ eve_present
    /\ \E i \in TxIndices :
          /\ ~eve_intercepts[i]
          /\ alice_bases[i] = 1 /\ bob_bases[i] = 1
          /\ alice_bits[i] = 1 /\ tx_ret[1][i] = 1

\* C2: intercept-resend replaces the state.  At every intercepted index the
\* circuit Bob measures is the encoding of (eve_results[i], eve_bases[i]),
\* and with noise_prob = 0 and bob_bases[i] = eve_bases[i] Bob's result is
\* Eve's result, whatever Alice sent.
C2_InterceptResendReplaces ==
    TxDone =>
       \A i \in TxIndices :
          Intercepted(i) =>
             /\ bob_jobs[i] = BobMeasureCircuit(
                                 encode_qubit(eve_results[i], eve_bases[i]), bob_bases[i])
             /\ (noise_prob = 0 /\ bob_bases[i] = eve_bases[i])
                   => tx_ret[1][i] = tx_ret[2][i]

\* C2 witness: an intercepted index where Bob used Eve's basis, not Alice's,
\* and read Eve's result, which differs from Alice's bit.
C2_Witness ==
    /\ TxDone /\ noise_prob = 0 /\ eve_present
    /\ \E i \in TxIndices :
          /\ eve_intercepts[i]
          /\ bob_bases[i] = eve_bases[i] /\ alice_bases[i] # eve_bases[i]
          /\ tx_ret[1][i] = tx_ret[2][i] /\ tx_ret[1][i] # alice_bits[i]

\* C3: with noise_prob = 0, a sifted index is in error only if Eve
\* intercepted it with a basis different from Alice's; when Eve intercepts
\* with Alice's basis, she reads Alice's bit and so does Bob.
C3_ErrorOnlyFromWrongBasisEve ==
    (TxDone /\ noise_prob = 0) =>
       \A i \in TxIndices :
          alice_bases[i] = bob_bases[i] =>
             /\ tx_ret[1][i] # alice_bits[i]
                   => (Intercepted(i) /\ eve_bases[i] # alice_bases[i])
             /\ (Intercepted(i) /\ eve_bases[i] = alice_bases[i])
                   => (eve_results[i] = alice_bits[i] /\ tx_ret[1][i] = alice_bits[i])

\* C22: intercept-resend error rate.  With noise_prob = 0, at every index
\* Eve intercepted and whose bases match, the probability that Bob's result
\* differs from Alice's bit is exactly 1/4.
C22_InterceptErrorQuarter ==
    (TxDone /\ noise_prob = 0) =>
       \A i \in TxIndices :
          (Intercepted(i) /\ alice_bases[i] = bob_bases[i])
             => InterceptErrorEighths(alice_bits[i], bob_bases[i]) * 4 = 8

\* C4: a measurement in a basis other than the preparation basis gives 0
\* and 1 with equal weight, whichever bit was encoded: for Eve measuring
\* Alice's state, and for Bob measuring Alice's or Eve's state.
C4_MismatchedBasisUniform ==
    TxDone =>
       \A i \in TxIndices :
          /\ (Intercepted(i) /\ eve_bases[i] # alice_bases[i])
                => RunWeights(eve_jobs[i]) = <<1, 1>>
          /\ (~Intercepted(i) /\ bob_bases[i] # alice_bases[i])
                => RunWeights(bob_jobs[i]) = <<1, 1>>
          /\ (Intercepted(i) /\ bob_bases[i] # eve_bases[i])
                => RunWeights(bob_jobs[i]) = <<1, 1>>
(***************************************************************************)
(* Properties of assess_security (checked under AssessSpec)                *)
(***************************************************************************)
\* The threshold a call compares against.
AS_Threshold == IF as_threshold = None THEN <<11, 100>> ELSE as_threshold

C6_InclusiveThreshold ==
    as_pc = "done" =>
       /\ as_ret.status \in {"SECURE", "INSECURE"}
       /\ as_ret.status = "SECURE"
             <=> as_qber[1] * AS_Threshold[2] <= AS_Threshold[1] * as_qber[2]
       /\ as_ret.status = "INSECURE"
             <=> as_qber[1] * AS_Threshold[2] > AS_Threshold[1] * as_qber[2]

\* C6 witness: the boundary call assess_security(0.11, 0.11) returned SECURE.
C6_Witness ==
    /\ as_pc = "done"
    /\ as_qber = <<11, 100>> /\ as_threshold = <<11, 100>>
    /\ as_ret.status = "SECURE"

(***************************************************************************)
(* Properties of privacy_amplification (checked under PASpec)              *)
(***************************************************************************)
PADone == pa_pc = "done"

\* The margin 2 * log2(1 / eps) of the call, in units of 1/Micro.
PAMarginMicro ==
    2 * Log2InvMicro(IF pa_level = None THEN TARGET_SECURITY_LEVEL ELSE pa_level)

C7_FinalKeyNotLonger == PADone => Len(pa_ret) <= Len(pa_sifted_key)

\* C8: the call returns exactly max(0, secure_length) bits, also above 256
\* and above 768.
C8_ExactSecureLength ==
    PADone => Len(pa_ret) = IF Len(pa_sifted_key) = 0 THEN 0 ELSE pa_secure_length

C10_DigestBit(hex, i) ==
    LET v == CHOOSE d \in 0..15 : HexChars[d + 1] = hex[((i - 1) \div 4) + 1]
        w == CASE (i - 1) % 4 = 0 -> 8 [] (i - 1) % 4 = 1 -> 4
               [] (i - 1) % 4 = 2 -> 2 [] (i - 1) % 4 = 3 -> 1
    IN (v \div w) % 2

\* The canonical serialization: one character '0' or '1' per bit, in order.
C10_Serialization(key) == [i \in 1..Len(key) |-> IF key[i] = 0 THEN "0" ELSE "1"]

\* C10: the first min(secure_length, 256) bits of the final key are the
\* leading bits of the SHA-256 digest of the serialization of sifted_key;
\* the bits from position 256 on are the leading bits of its SHA-512 digest.
C10_KeyStructure ==
    (PADone /\ Len(pa_sifted_key) > 0) =>
       LET ser == C10_Serialization(pa_sifted_key)
           d256 == Sha256Hex(ser)
           d512 == Sha512Hex(ser)
       IN /\ Len(pa_ret) >= Min(pa_secure_length, 256)
          /\ pa_secure_length > 256 => Len(pa_ret) > 256
          /\ \A i \in 1..Len(pa_ret) :
                pa_ret[i] = IF i <= 256 THEN C10_DigestBit(d256, i)
                                        ELSE C10_DigestBit(d512, i - 256)

\* C10 witness: a key longer than 256 bits was extracted from a sifted key
\* whose SHA-256 digest starts with a zero hex digit.
C10_Witness ==
    /\ PADone
    /\ Len(pa_ret) > 256
    /\ Sha256Hex(C10_Serialization(pa_sifted_key))[1] = "0"
    /\ \E i \in 257..Len(pa_ret) : pa_ret[i] = 1

(***************************************************************************)
(* Properties of the run lock (under LockSpec and LockFairSpec)            *)
(***************************************************************************)
\* Invocation i is past the guard and has not left the function.
PastGuard(i) ==
    lock_pc[i] \in {"lock", "body", "scenarios", "complete", "finally", "finally_exc"}

\* C23: mutual exclusion.  At no time are two invocations of
\* run_bb84_simulation both past the simulation_in_progress guard, under
\* every interleaving of their steps.
C23_MutualExclusion ==
    \A i \in Invocations : \A j \in Invocations \ {i} :
       ~(PastGuard(i) /\ PastGuard(j))

\* Invocation i takes the step that ends it after the finally clause.
LockLeaves(i) ==
    lock_pc[i] \in {"finally", "finally_exc"} /\ lock_pc'[i] \in {"returned", "raised"}

\* Invocation i is turned away by the guard.
LockRejected(i) == lock_pc[i] = "guard" /\ lock_pc'[i] = "rejected"

\* C24: release of the run lock.  Every invocation that passes the guard
\* comes to its end, by return or by exception, and the step that ends it
\* leaves simulation_in_progress False; an invocation the guard turns away
\* leaves the flag set; whenever no invocation is inside the function the
\* flag is False, so the next button press starts a run.
C24_LockRelease ==
    /\ \A i \in Invocations :
          (lock_pc[i] = "lock") ~> (lock_pc[i] \in {"returned", "raised"})
    /\ [][\A i \in Invocations :
            /\ LockLeaves(i) => ~session_state'.simulation_in_progress
            /\ LockRejected(i) => /\ session_state.simulation_in_progress
                                  /\ session_state'.simulation_in_progress]_vars
    /\ []((\A i \in Invocations : ~PastGuard(i) /\ lock_pc[i] # "guard")
             => ~session_state.simulation_in_progress)

C24_Witness ==
    /\ lock_pc = [i \in Invocations |-> IF i = 1 THEN "raised" ELSE "rejected"]
    /\ ~session_state.simulation_in_progress
    /\ session_state.alice_bits_stored = Some(1)

(***************************************************************************)
(* Properties of the session state across runs (under Spec)                *)
(***************************************************************************)
\* The scenario was computed in a run with the given parameters: one
\* timeline row per qubit and the verdict of its qber under the threshold.
ProducedWith(scenario, parameters) ==
    /\ Len(scenario.timeline) = parameters.num_bits
    /\ scenario.status = assess_security(scenario.qber, parameters.threshold).status

\* C25: whenever simulation_completed is True, sim_results is not None and
\* holds both scenarios together with the parameters of the run that
\* produced them, after any sequence of successful and failed runs.
C25_CompletedHasResults ==
    session_state.simulation_completed =>
       /\ session_state.sim_results # Nothing
       /\ LET r == session_state.sim_results[1]
          IN /\ {"no_eve", "eve", "parameters"} \subseteq DOMAIN r
             /\ ProducedWith(r.no_eve, r.parameters)
             /\ ProducedWith(r.eve, r.parameters)

\* A run of one qubit completed; a later run of no qubits failed and has
\* returned.
C25_Witness ==
    /\ run_pc = "idle" /\ session_state.simulation_completed
    /\ session_state.sim_results # Nothing
    /\ session_state.sim_results[1].parameters.num_bits = 1
    /\ session_state.alice_bits_stored = Some(<<>>)

\* The column of a timeline.
AliceBits(timeline) == [i \in 1..Len(timeline) |-> timeline[i].AliceBit]

AliceBases(timeline) == [i \in 1..Len(timeline) |-> timeline[i].AliceBasis]

BobBases(timeline) == [i \in 1..Len(timeline) |-> timeline[i].BobBasis]

\* The results are shown: a run has completed and none is under way.
ResultsShown == run_pc = "idle" /\ session_state.simulation_completed

\* C26: stored inputs match stored results.  Whenever the results are
\* shown, alice_bits_stored, alice_bases_stored and bob_bases_stored are
\* the arrays the timelines in sim_results were computed from, also after
\* a later run that raised an exception.
C26_StoredInputsMatch ==
    ResultsShown =>
       \A timeline \in {session_state.sim_results[1].no_eve.timeline,
                        session_state.sim_results[1].eve.timeline} :
          /\ session_state.alice_bits_stored = Some(AliceBits(timeline))
          /\ session_state.alice_bases_stored = Some(AliceBases(timeline))
          /\ session_state.bob_bases_stored = Some(BobBases(timeline))

\* C27: displayed threshold matches the verdict.  Whenever the results are
\* shown, the threshold passed to the QBER gauge is the threshold the
\* statuses were computed with, sim_results['parameters']['threshold'].
C27_DisplayedThreshold ==
    ResultsShown =>
       GaugeThreshold = session_state.sim_results[1].parameters.threshold

\* C30: session run counter.  simulations_run starts at 0, goes up by one
\* with every run that completes and is left alone by every other step,
\* so it equals the number of completed runs.
C30_RunCounter ==
    /\ simulations_run = 0
    /\ [][IF RunBody THEN simulations_run' = simulations_run + 1
                     ELSE simulations_run' = simulations_run]_vars

\* The columns of a timeline row that come from the arrays of Alice and Bob
\* alone.
InputColumns(record) ==
    <<record.BitIndex, record.AliceBit, record.AliceBasis, record.BobBasis, record.Used>>

====
